---- MODULE Spec2Model ----
(***************************************************************************)
(* A model of librand/lib.rs: the Rng trait's derived operations           *)
(* (fill_bytes, gen_range, gen_weighted_bool, choose, shuffle, sample),    *)
(* XorShiftRng with its SeedableRng implementation, and the task-local     *)
(* generator behind task_rng().                                            *)
(*                                                                         *)
(* Machine words are sets of bit positions: a u32 is a subset of 0..31, a  *)
(* u64 a subset of 0..63.  Bit i is set in the word iff i is in the set,   *)
(* so xor, shifts and masks are exact at the full width.                   *)
(***************************************************************************)
EXTENDS Integers, Sequences, FiniteSets, Bags, TLC

VARIABLES
    op,         \* the Rng method being executed, "idle" between calls
    pc,         \* position inside the method: "run", "done", "failed"
    input,      \* the arguments as the caller passed them
    values,     \* the mutable slice of the call (dest, values)
    count,      \* fill_bytes: bytes left in num
    num,        \* fill_bytes: the u64 being drained
    i,          \* loop position of the call
    reservoir,  \* sample: the reservoir
    ret,        \* the value returned
    words,      \* the u64 words next_u64 returned during the call
    draws,      \* the gen_range calls made during the call
    xs,         \* XorShiftRng instances: the fields x, y, z, w, or NoRng
    xsSeed,     \* the seed each instance was last seeded with
    xsOut,      \* what next_u32 returned since the instance was last seeded
    xsHist,     \* whether the instance had drawn before it was last seeded
    xsLast,     \* the last from_seed or reseed call and whether it failed
    taskState,  \* each task: "running", "failed" or "ended"
    tlsSlot,    \* each task's TASK_RNG_KEY slot: None or Some(box)
    boxes,      \* every Box<TaskRngInner> allocated so far, by allocation order
    handles,    \* the TaskRng values task_rng() returned to each task: their rng pointers
    built,      \* how many ReseedingRng each task has constructed
    nwPc,       \* XorShiftRng::new: "idle", "read", "test" or "done"
    nwBuf,      \* XorShiftRng::new: the 16 bytes s
    nwRet,      \* XorShiftRng::new: how the call ended: Ok, Err or task failure
    nwReads,    \* XorShiftRng::new: the fill_bytes calls of this call, up to MaxReads
    sdRet,      \* the IoResult of the last direct StdRng::new()
    base,       \* the StdRng inside each box, by allocation order
    seedings,   \* how many generators have been seeded from the OS so far
    osLast      \* the last operation that went to the OS for a seed

rngVars == <<op, pc, input, values, count, num, i, reservoir, ret, words, draws>>

xsVars == <<xs, xsSeed, xsOut, xsHist, xsLast>>

taskVars == <<taskState, tlsSlot, boxes, handles, built>>

entVars == <<nwPc, nwBuf, nwRet, nwReads, sdRet, base, seedings, osLast>>

vars == <<rngVars, xsVars, taskVars, entVars>>

(***************************************************************************)
(* Bounds of the model.                                                    *)
(***************************************************************************)
MaxFill == 17
MaxLen == 4
MaxArg == 3
MaxDraws == 16
NTasks == 3
MaxCalls == 3
MaxStr == 2
MaxReads == 3
MaxSeedings == 3
MaxBaseDraws == 2

(***************************************************************************)
(* Words as sets of bit positions.                                         *)
(***************************************************************************)
RECURSIVE Pow2(_)
Pow2(k) == IF k = 0 THEN 1 ELSE 2 * Pow2(k - 1)

\* the word whose value is the natural number n < 2^16
FromNat(n) == {b \in 0..15 : (n \div Pow2(b)) % 2 = 1}

RECURSIVE ToNat(_)
\* the value of a word that fits in 30 bits
ToNat(v) ==
    IF v = {} THEN 0
    ELSE LET b == CHOOSE c \in v : TRUE
         IN  Pow2(b) + ToNat(v \ {b})

\* v << k on a word of w bits: the bits shifted past w - 1 are lost
Shl(v, k, w) == {b + k : b \in {c \in v : c + k < w}}

\* v >> k, logical
Shr(v, k) == {b - k : b \in {c \in v : c >= k}}

Xor(a, b) == (a \ b) \cup (b \ a)

\* a u32 from its two 16-bit halves, as the literal 0xHHHHLLLL
U32(hi16, lo16) == Shl(FromNat(hi16), 16, 32) \cup FromNat(lo16)

\* Option: None, and Some(x)
None == <<>>

Some(x) == <<x>>

(***************************************************************************)
(* Rng::next_u64, the default: two next_u32 draws, the first one the high  *)
(* half.                                                                   *)
(***************************************************************************)
Next_u64(first, second) == Shl(first, 32, 64) \cup second

\* what next_u32 of the generator under the trait may return
U32Draws == {U32(4386, 13124), U32(21862, 30600)}   \* 0x11223344, 0x55667788

U64Draws == {Next_u64(a, b) : a, b \in U32Draws}

(***************************************************************************)
(* Rng::gen_range(low, high): fails unless low < high, else a value of     *)
(* [low, high).                                                            *)
(***************************************************************************)
GenRangeLe(low, high) ==
    IF low <= high
    THEN [ok |-> TRUE, vals |-> IF low = high THEN {low} ELSE low..(high - 1)]
    ELSE [ok |-> FALSE, vals |-> {}]

GenRange(low, high) ==
    IF low < high
    THEN [ok |-> TRUE, vals |-> low..(high - 1)]
    ELSE [ok |-> FALSE, vals |-> {}]

(***************************************************************************)
(* The state between two calls.                                            *)
(***************************************************************************)
Idle ==
    /\ op = "idle"
    /\ pc = "done"
    /\ input = <<>>
    /\ values = <<>>
    /\ count = 0
    /\ num = {}
    /\ i = 0
    /\ reservoir = <<>>
    /\ ret = None
    /\ words = <<>>
    /\ draws = <<>>

RngInit == Idle

\* the caller takes the result; the next call starts from fresh locals
Return ==
    /\ op # "idle"
    /\ pc \in {"done", "failed"}
    /\ op' = "idle"
    /\ pc' = "done"
    /\ input' = <<>>
    /\ values' = <<>>
    /\ count' = 0
    /\ num' = {}
    /\ i' = 0
    /\ reservoir' = <<>>
    /\ ret' = None
    /\ words' = <<>>
    /\ draws' = <<>>

(***************************************************************************)
(* Rng::fill_bytes, the default implementation.                            *)
(***************************************************************************)
LowByteSkipFirst(n) == ToNat(Shr(n, 8) \cap (0..7))

\* (num & 0xff) as u8
LowByte(n) == ToNat(n \cap (0..7))

\* the bytes a destination may hold before the call
InitBytes == {0, 255}

FillCall ==
    /\ op = "idle"
    /\ \E n \in 0..MaxFill, b \in InitBytes :
          /\ input' = [k \in 1..n |-> b]
          /\ values' = [k \in 1..n |-> b]
    /\ op' = "fill_bytes"
    /\ pc' = "run"
    /\ count' = 0
    /\ num' = {}
    /\ i' = 0
    /\ UNCHANGED <<reservoir, ret, words, draws>>

\* one iteration of `for byte in dest.mut_iter()`
FillStep ==
    /\ op = "fill_bytes"
    /\ pc = "run"
    /\ i < Len(values)
    /\ \E w \in (IF count = 0 THEN U64Draws ELSE {num}) :
          /\ words' = IF count = 0 THEN Append(words, w) ELSE words
          /\ values' = [values EXCEPT ![i + 1] = LowByte(w)]
          /\ num' = Shr(w, 8)
          /\ count' = (IF count = 0 THEN 8 ELSE count) - 1
    /\ i' = i + 1
    /\ UNCHANGED <<op, pc, input, reservoir, ret, draws>>

FillReturn ==
    /\ op = "fill_bytes"
    /\ pc = "run"
    /\ i = Len(values)
    /\ pc' = "done"
    /\ UNCHANGED <<op, input, values, count, num, i, reservoir, ret, words, draws>>

(***************************************************************************)
(* A direct call of gen_range.                                             *)
(***************************************************************************)
\* int and uint arguments
ArgsOf(ty) == IF ty = "uint" THEN 0..MaxArg ELSE (0 - MaxArg)..MaxArg

GenRangeCall ==
    /\ op = "idle"
    /\ \E ty \in {"int", "uint"} : \E low, high \in ArgsOf(ty) :
          input' = [ty |-> ty, low |-> low, high |-> high]
    /\ op' = "gen_range"
    /\ pc' = "run"
    /\ UNCHANGED <<values, count, num, i, reservoir, ret, words, draws>>

GenRangeBody ==
    /\ op = "gen_range"
    /\ pc = "run"
    /\ LET r == GenRange(input.low, input.high)
       IN  IF r.ok
           THEN \E v \in r.vals :
                   /\ ret' = v
                   /\ draws' = Append(draws, <<input.low, input.high, v>>)
                   /\ pc' = "done"
           ELSE /\ pc' = "failed"
                /\ UNCHANGED <<ret, draws>>
    /\ UNCHANGED <<op, input, values, count, num, i, reservoir, words>>

(***************************************************************************)
(* Rng::gen_weighted_bool(n): n == 0 || self.gen_range(0, n) == 0.         *)
(***************************************************************************)
WeightedShortNever(n) == FALSE

\* the left operand of ||, which decides whether gen_range is called at all
WeightedShort(n) == n = 0

WeightedCall ==
    /\ op = "idle"
    /\ \E n \in 0..MaxArg : input' = [n |-> n]
    /\ op' = "gen_weighted_bool"
    /\ pc' = "run"
    /\ UNCHANGED <<values, count, num, i, reservoir, ret, words, draws>>

WeightedBody ==
    /\ op = "gen_weighted_bool"
    /\ pc = "run"
    /\ IF WeightedShort(input.n)
       THEN /\ ret' = TRUE
            /\ pc' = "done"
            /\ UNCHANGED draws
       ELSE LET r == GenRange(0, input.n)
            IN  IF r.ok
                THEN \E v \in r.vals :
                        /\ ret' = (v = 0)
                        /\ draws' = Append(draws, <<0, input.n, v>>)
                        /\ pc' = "done"
                ELSE /\ pc' = "failed"
                     /\ UNCHANGED <<ret, draws>>
    /\ UNCHANGED <<op, input, values, count, num, i, reservoir, words>>

(***************************************************************************)
(* Slices handed to choose, shuffle and sample.                            *)
(***************************************************************************)
Elems == {"a", "b", "c"}

Slices == UNION {[1..n -> Elems] : n \in 0..MaxLen}

(***************************************************************************)
(* Rng::choose.                                                            *)
(***************************************************************************)
ChooseIndexIncl(len) == GenRange(0, len + 1)

\* self.gen_range(0u, values.len())
ChooseIndex(len) == GenRange(0, len)

ChooseCall ==
    /\ op = "idle"
    /\ \E s \in Slices :
          /\ input' = s
          /\ values' = s
    /\ op' = "choose"
    /\ pc' = "run"
    /\ UNCHANGED <<count, num, i, reservoir, ret, words, draws>>

\* the reference &values[k] is the pair of the index and the element it
\* refers to; indexing past the end fails the task
ChooseBody ==
    /\ op = "choose"
    /\ pc = "run"
    /\ IF Len(values) = 0
       THEN /\ ret' = None
            /\ pc' = "done"
            /\ UNCHANGED draws
       ELSE LET r == ChooseIndex(Len(values))
            IN  IF r.ok
                THEN \E k \in r.vals :
                        /\ draws' = Append(draws, <<0, Len(values), k>>)
                        /\ IF k < Len(values)
                           THEN /\ ret' = Some([at |-> k, elem |-> values[k + 1]])
                                /\ pc' = "done"
                           ELSE /\ pc' = "failed"
                                /\ UNCHANGED ret
                ELSE /\ pc' = "failed"
                     /\ UNCHANGED <<ret, draws>>
    /\ UNCHANGED <<op, input, values, count, num, i, reservoir, words>>

(***************************************************************************)
(* Rng::shuffle.                                                           *)
(***************************************************************************)
SwapOverwrite(s, a, b) == [s EXCEPT ![a + 1] = s[b + 1]]

\* values.swap(a, b), indices from 0
Swap(s, a, b) == [s EXCEPT ![a + 1] = s[b + 1], ![b + 1] = s[a + 1]]

ShuffleCall ==
    /\ op = "idle"
    /\ \E s \in Slices :
          /\ input' = s
          /\ values' = s
          /\ i' = Len(s)
    /\ op' = "shuffle"
    /\ pc' = "run"
    /\ UNCHANGED <<count, num, reservoir, ret, words, draws>>

ShuffleStepExcl ==
    /\ op = "shuffle"
    /\ pc = "run"
    /\ i >= 2
    /\ LET i1 == i - 1
           r == GenRange(0, i1)
       IN  IF r.ok
           THEN \E j \in r.vals :
                   /\ draws' = Append(draws, <<0, i1, j>>)
                   /\ values' = Swap(values, i1, j)
                   /\ i' = i1
                   /\ UNCHANGED pc
           ELSE /\ pc' = "failed"
                /\ UNCHANGED <<draws, values, i>>
    /\ UNCHANGED <<op, input, count, num, reservoir, ret, words>>

\* one iteration of `while i >= 2u`
ShuffleStep ==
    /\ op = "shuffle"
    /\ pc = "run"
    /\ i >= 2
    /\ LET i1 == i - 1
           r == GenRange(0, i1 + 1)
       IN  IF r.ok
           THEN \E j \in r.vals :
                   /\ draws' = Append(draws, <<0, i1 + 1, j>>)
                   /\ values' = Swap(values, i1, j)
                   /\ i' = i1
                   /\ UNCHANGED pc
           ELSE /\ pc' = "failed"
                /\ UNCHANGED <<draws, values, i>>
    /\ UNCHANGED <<op, input, count, num, reservoir, ret, words>>

ShuffleReturn ==
    /\ op = "shuffle"
    /\ pc = "run"
    /\ i < 2
    /\ pc' = "done"
    /\ UNCHANGED <<op, input, values, count, num, i, reservoir, ret, words, draws>>

(***************************************************************************)
(* Rng::sample.                                                            *)
(***************************************************************************)
SampleFillsLe(idx, n) == idx <= n

\* `if i < n`: the element goes straight into the reservoir
SampleFills(idx, n) == idx < n

SampleCall ==
    /\ op = "idle"
    /\ \E s \in Slices, n \in 0..(MaxLen + 1) :
          input' = [iter |-> s, n |-> n]
    /\ op' = "sample"
    /\ pc' = "run"
    /\ reservoir' = <<>>
    /\ i' = 0
    /\ UNCHANGED <<values, count, num, ret, words, draws>>

SampleStepShort ==
    /\ op = "sample"
    /\ pc = "run"
    /\ i < Len(input.iter)
    /\ LET elem == input.iter[i + 1]
       IN  IF SampleFills(i, input.n)
           THEN /\ reservoir' = Append(reservoir, elem)
                /\ i' = i + 1
                /\ UNCHANGED <<pc, draws>>
           ELSE LET r == GenRange(0, i)
                IN  IF r.ok
                    THEN \E k \in r.vals :
                            /\ draws' = Append(draws, <<0, i, k>>)
                            /\ reservoir' =
                                  IF k < Len(reservoir)
                                  THEN [reservoir EXCEPT ![k + 1] = elem]
                                  ELSE reservoir
                            /\ i' = i + 1
                            /\ UNCHANGED pc
                    ELSE /\ pc' = "failed"
                         /\ UNCHANGED <<draws, reservoir, i>>
    /\ UNCHANGED <<op, input, values, count, num, ret, words>>

\* one iteration of `for (i, elem) in iter.enumerate()`
SampleStep ==
    /\ op = "sample"
    /\ pc = "run"
    /\ i < Len(input.iter)
    /\ LET elem == input.iter[i + 1]
       IN  IF SampleFills(i, input.n)
           THEN /\ reservoir' = Append(reservoir, elem)
                /\ i' = i + 1
                /\ UNCHANGED <<pc, draws>>
           ELSE LET r == GenRange(0, i + 1)
                IN  IF r.ok
                    THEN \E k \in r.vals :
                            /\ draws' = Append(draws, <<0, i + 1, k>>)
                            /\ reservoir' =
                                  IF k < Len(reservoir)
                                  THEN [reservoir EXCEPT ![k + 1] = elem]
                                  ELSE reservoir
                            /\ i' = i + 1
                            /\ UNCHANGED pc
                    ELSE /\ pc' = "failed"
                         /\ UNCHANGED <<draws, reservoir, i>>
    /\ UNCHANGED <<op, input, values, count, num, ret, words>>

SampleReturn ==
    /\ op = "sample"
    /\ pc = "run"
    /\ i = Len(input.iter)
    /\ ret' = reservoir
    /\ pc' = "done"
    /\ UNCHANGED <<op, input, values, count, num, i, reservoir, words, draws>>

(***************************************************************************)
(* Rng::gen_ascii_str.                                                     *)
(***************************************************************************)
\* GEN_ASCII_STR_CHARSET, the bytes of "A..Za..z0..9"
GEN_ASCII_STR_CHARSET ==
    [k \in 1..62 |->
        IF k <= 26 THEN 64 + k
        ELSE IF k <= 52 THEN 96 + (k - 26)
        ELSE 47 + (k - 52)]

\* self.choose(vs), as the set of its outcomes: the gen_range call it makes,
\* the Option it returns, and whether it returns at all
ChooseOutcomes(vs) ==
    IF Len(vs) = 0
    THEN {[ok |-> TRUE, draw |-> None, res |-> None]}
    ELSE LET r == ChooseIndex(Len(vs))
         IN  IF r.ok
             THEN {[ok |-> k < Len(vs),
                    draw |-> Some(<<0, Len(vs), k>>),
                    res |-> IF k < Len(vs) THEN Some(vs[k + 1]) ELSE None] : k \in r.vals}
             ELSE {[ok |-> FALSE, draw |-> None, res |-> None]}

AsciiMoreLe(k, len) == k <= len

\* `for _ in range(0, len)`: whether iteration k runs
AsciiMore(k, len) == k < len

AsciiCall ==
    /\ op = "idle"
    /\ \E len \in 0..MaxStr : input' = [len |-> len]
    /\ op' = "gen_ascii_str"
    /\ pc' = "run"
    /\ ret' = <<>>
    /\ i' = 0
    /\ UNCHANGED <<values, count, num, reservoir, words, draws>>

\* one iteration: s.push_char(*self.choose(GEN_ASCII_STR_CHARSET).unwrap() as char);
\* unwrap of None fails the task
AsciiStep ==
    /\ op = "gen_ascii_str"
    /\ pc = "run"
    /\ AsciiMore(i, input.len)
    /\ \E c \in ChooseOutcomes(GEN_ASCII_STR_CHARSET) :
          /\ draws' = draws \o c.draw
          /\ IF c.ok /\ c.res # None
             THEN /\ ret' = Append(ret, c.res[1])
                  /\ i' = i + 1
                  /\ UNCHANGED pc
             ELSE /\ pc' = "failed"
                  /\ UNCHANGED <<ret, i>>
    /\ UNCHANGED <<op, input, values, count, num, reservoir, words>>

AsciiReturn ==
    /\ op = "gen_ascii_str"
    /\ pc = "run"
    /\ ~ AsciiMore(i, input.len)
    /\ pc' = "done"
    /\ UNCHANGED <<op, input, values, count, num, i, reservoir, ret, words, draws>>

\* the Rng operations leave the generators of the other parts alone
RngNext ==
    \/ FillCall /\ UNCHANGED <<xsVars, taskVars, entVars>>
    \/ FillStep /\ UNCHANGED <<xsVars, taskVars, entVars>>
    \/ FillReturn /\ UNCHANGED <<xsVars, taskVars, entVars>>
    \/ GenRangeCall /\ UNCHANGED <<xsVars, taskVars, entVars>>
    \/ GenRangeBody /\ UNCHANGED <<xsVars, taskVars, entVars>>
    \/ WeightedCall /\ UNCHANGED <<xsVars, taskVars, entVars>>
    \/ WeightedBody /\ UNCHANGED <<xsVars, taskVars, entVars>>
    \/ ChooseCall /\ UNCHANGED <<xsVars, taskVars, entVars>>
    \/ ChooseBody /\ UNCHANGED <<xsVars, taskVars, entVars>>
    \/ ShuffleCall /\ UNCHANGED <<xsVars, taskVars, entVars>>
    \/ ShuffleStep /\ UNCHANGED <<xsVars, taskVars, entVars>>
    \/ ShuffleReturn /\ UNCHANGED <<xsVars, taskVars, entVars>>
    \/ SampleCall /\ UNCHANGED <<xsVars, taskVars, entVars>>
    \/ SampleStep /\ UNCHANGED <<xsVars, taskVars, entVars>>
    \/ SampleReturn /\ UNCHANGED <<xsVars, taskVars, entVars>>
    \/ Return /\ UNCHANGED <<xsVars, taskVars, entVars>>
    \/ AsciiCall /\ UNCHANGED <<xsVars, taskVars, entVars>>
    \/ AsciiStep /\ UNCHANGED <<xsVars, taskVars, entVars>>
    \/ AsciiReturn /\ UNCHANGED <<xsVars, taskVars, entVars>>

(***************************************************************************)
(* XorShiftRng.                                                            *)
(***************************************************************************)
Inst == {"ra", "rb"}

NoRng == [x |-> {-1}, y |-> {-1}, z |-> {-1}, w |-> {-1}]

Zero32 == {}

\* the seeds [u32, .. 4] the callers pass
Seeds ==
    { <<Zero32, Zero32, Zero32, Zero32>>,
      <<FromNat(1), FromNat(2), FromNat(3), FromNat(4)>>,
      <<Zero32, Zero32, Zero32, {31}>>,
      <<{31}, Zero32, Zero32, Zero32>>,
      <<{0}, Zero32, Zero32, Zero32>>,
      <<U32(4386, 13124), U32(21862, 30600), 0..31, Zero32>> }

SeedOkAlways(seed) == TRUE

\* !seed.iter().all(|&x| x == 0)
SeedOk(seed) == ~ (\A k \in 1..4 : seed[k] = Zero32)

\* XorShiftRng { x: seed[0], y: seed[1], z: seed[2], w: seed[3] }
XsFromSeed(seed) == [x |-> seed[1], y |-> seed[2], z |-> seed[3], w |-> seed[4]]

XsReseedKeepsW(self, seed) == [x |-> seed[1], y |-> seed[2], z |-> seed[3], w |-> self.w]

\* the four assignments of reseed
XsReseed(self, seed) == [x |-> seed[1], y |-> seed[2], z |-> seed[3], w |-> seed[4]]

XsNextU32Wide(self) ==
    LET x == self.x
        t == Xor(x, Shl(x, 11, 64))
        w == self.w
    IN  [x |-> self.y,
         y |-> self.z,
         z |-> self.w,
         w |-> Xor(Xor(w, Shr(w, 19)), Xor(t, Shr(t, 8)))]

\* next_u32: the fields after the call; the value returned is the new w
XsNextU32(self) ==
    LET x == self.x
        t == Xor(x, Shl(x, 11, 32))
        w == self.w
    IN  [x |-> self.y,
         y |-> self.z,
         z |-> self.w,
         w |-> Xor(Xor(w, Shr(w, 19)), Xor(t, Shr(t, 8)))]

XsInit ==
    /\ xs = [r \in Inst |-> NoRng]
    /\ xsSeed = [r \in Inst |-> <<>>]
    /\ xsOut = [r \in Inst |-> <<>>]
    /\ xsHist = [r \in Inst |-> FALSE]
    /\ xsLast = [kind |-> "none", seed |-> <<>>, failed |-> FALSE]

\* let r: XorShiftRng = SeedableRng::from_seed(seed)
FromSeed(r, seed) ==
    /\ xs[r] = NoRng
    /\ IF SeedOk(seed)
       THEN /\ xs' = [xs EXCEPT ![r] = XsFromSeed(seed)]
            /\ xsSeed' = [xsSeed EXCEPT ![r] = seed]
            /\ xsLast' = [kind |-> "from_seed", seed |-> seed, failed |-> FALSE]
       ELSE /\ xsLast' = [kind |-> "from_seed", seed |-> seed, failed |-> TRUE]
            /\ UNCHANGED <<xs, xsSeed>>
    /\ UNCHANGED <<xsOut, xsHist>>

\* r.reseed(seed)
Reseed(r, seed) ==
    /\ xs[r] # NoRng
    /\ IF SeedOk(seed)
       THEN /\ xs' = [xs EXCEPT ![r] = XsReseed(xs[r], seed)]
            /\ xsSeed' = [xsSeed EXCEPT ![r] = seed]
            /\ xsHist' = [xsHist EXCEPT ![r] = xsHist[r] \/ xsOut[r] # <<>>]
            /\ xsOut' = [xsOut EXCEPT ![r] = <<>>]
            /\ xsLast' = [kind |-> "reseed", seed |-> seed, failed |-> FALSE]
       ELSE /\ xsLast' = [kind |-> "reseed", seed |-> seed, failed |-> TRUE]
            /\ UNCHANGED <<xs, xsSeed, xsOut, xsHist>>

\* r.next_u32()
NextU32(r) ==
    /\ xs[r] # NoRng
    /\ Len(xsOut[r]) < MaxDraws
    /\ xs' = [xs EXCEPT ![r] = XsNextU32(xs[r])]
    /\ xsOut' = [xsOut EXCEPT ![r] = Append(xsOut[r], xs'[r].w)]
    /\ UNCHANGED <<xsSeed, xsHist, xsLast>>

\* the instance goes out of scope
Drop(r) ==
    /\ xs[r] # NoRng
    /\ xs' = [xs EXCEPT ![r] = NoRng]
    /\ xsSeed' = [xsSeed EXCEPT ![r] = <<>>]
    /\ xsOut' = [xsOut EXCEPT ![r] = <<>>]
    /\ xsHist' = [xsHist EXCEPT ![r] = FALSE]
    /\ UNCHANGED xsLast

XsNext ==
    \/ \E r \in Inst, seed \in Seeds : FromSeed(r, seed) /\ UNCHANGED <<rngVars, taskVars, entVars>>
    \/ \E r \in Inst, seed \in Seeds : Reseed(r, seed) /\ UNCHANGED <<rngVars, taskVars, entVars>>
    \/ \E r \in Inst : NextU32(r) /\ UNCHANGED <<rngVars, taskVars, entVars>>
    \/ \E r \in Inst : Drop(r) /\ UNCHANGED <<rngVars, taskVars, entVars>>

(***************************************************************************)
(* The task-local generator: task_rng().                                   *)
(***************************************************************************)
TASK_RNG_RESEED_THRESHOLD == 32768

Tasks == 1..NTasks

SlotGetNone(t) == None

\* TASK_RNG_KEY.get() in task t
SlotGet(t) == tlsSlot[t]

\* box reseeding::ReseedingRng::new(r, TASK_RNG_RESEED_THRESHOLD, TaskRngReseeder),
\* r the StdRng that StdRng::new() returned; owner is the task that built it
NewInner(t) ==
    [rng |-> "StdRng::new",
     threshold |-> TASK_RNG_RESEED_THRESHOLD,
     reseeder |-> "TaskRngReseeder",
     owner |-> t,
     live |-> TRUE]

\* dropping the value a slot held frees its box
Free(bs, slot) ==
    IF slot = None THEN bs ELSE [bs EXCEPT ![slot[1]].live = FALSE]

TaskInit ==
    /\ taskState = [t \in Tasks |-> "running"]
    /\ tlsSlot = [t \in Tasks |-> None]
    /\ boxes = <<>>
    /\ handles = [t \in Tasks |-> <<>>]
    /\ built = [t \in Tasks |-> 0]

\* task_rng() called in task t; osOk is whether StdRng::new() returns Ok
TaskRngCall(t, osOk) ==
    /\ taskState[t] = "running"
    /\ Len(handles[t]) < MaxCalls
    /\ IF SlotGet(t) = None
       THEN IF osOk
            THEN LET ptr == Len(boxes) + 1
                 IN  /\ boxes' = Append(Free(boxes, tlsSlot[t]), NewInner(t))
                     /\ built' = [built EXCEPT ![t] = built[t] + 1]
                     /\ tlsSlot' = [tlsSlot EXCEPT ![t] = Some(ptr)]
                     /\ handles' = [handles EXCEPT ![t] = Append(handles[t], ptr)]
                     /\ UNCHANGED taskState
            ELSE \* fail!("could not initialize task_rng"): the task unwinds
                 /\ taskState' = [taskState EXCEPT ![t] = "failed"]
                 /\ boxes' = Free(boxes, tlsSlot[t])
                 /\ tlsSlot' = [tlsSlot EXCEPT ![t] = None]
                 /\ handles' = [handles EXCEPT ![t] = <<>>]
                 /\ UNCHANGED built
       ELSE /\ handles' = [handles EXCEPT ![t] = Append(handles[t], SlotGet(t)[1])]
            /\ UNCHANGED <<taskState, tlsSlot, boxes, built>>

\* the task finishes: its local data is destroyed and its TaskRng values
\* (NoSend, so never held by another task) go with it
TaskEnd(t) ==
    /\ taskState[t] = "running"
    /\ taskState' = [taskState EXCEPT ![t] = "ended"]
    /\ boxes' = Free(boxes, tlsSlot[t])
    /\ tlsSlot' = [tlsSlot EXCEPT ![t] = None]
    /\ handles' = [handles EXCEPT ![t] = <<>>]
    /\ UNCHANGED built

TaskNext ==
    \/ \E t \in Tasks : TaskRngCall(t, TRUE) /\ UNCHANGED <<rngVars, xsVars, entVars>>
    \/ \E t \in Tasks : TaskRngCall(t, FALSE) /\ UNCHANGED <<rngVars, xsVars, entVars>>
    \/ \E t \in Tasks : TaskEnd(t) /\ UNCHANGED <<rngVars, xsVars, entVars>>

(***************************************************************************)
(* Seeding from the operating system: StdRng::new, XorShiftRng::new, the   *)
(* construction of the task-local generator and TaskRngReseeder.           *)
(***************************************************************************)
\* IoResult: Ok(x) and Err(e); a call that fails the task returns nothing
OkOf(x) == <<"Ok", x>>

IoErr == <<"Err", "IoError">>

FailOf(msg) == <<"Fail", msg>>

\* what OSRng::new() and StdRng::new() may return: Ok or Err
OsOutcomes == {"ok", "err"}

\* a StdRng as it comes out of the id-th seeding from the OS
FreshStdRng(id) == [seed |-> id, drawn |-> 0]

\* StdRng::new(): IsaacRng::new().map(|r| StdRng { rng: r })
StdRngNew(os, id) == IF os = "ok" THEN OkOf(FreshStdRng(id)) ELSE IoErr

\* let mut s = [0u8, ..16]
Zero16 == [k \in 1..16 |-> 0]

\* the blocks of 16 bytes a read of the OS source may deliver
Blocks ==
    {Zero16, [k \in 1..16 |-> 255]}
        \cup {[Zero16 EXCEPT ![p] = v] : p \in {1, 6, 11, 16}, v \in {1, 128, 255}}

Endians == {"little", "big"}

\* mem::transmute of [u8, ..16] to [u32, ..4]: word k is bytes 4k .. 4k + 3
\* in the byte order of the target
Transmute(s, endian) ==
    [k \in 1..4 |->
        UNION { Shl(FromNat(s[4 * (k - 1) + j + 1]),
                    IF endian = "little" THEN 8 * j ELSE 8 * (3 - j),
                    32) : j \in 0..3 }]

XsNewBreakAlways(s) == TRUE

\* the condition of the break: !s.iter().all(|x| *x == 0)
XsNewBreak(s) == ~ (\A k \in 1..16 : s[k] = 0)

\* what osLast records: the operation, how often it went to the OS source,
\* whether that failed, the task, and for a reseed the StdRng before and after
NoOp == [op |-> "none", uses |-> 0, failure |-> FALSE, task |-> 0,
         before |-> None, after |-> None]

EntInit ==
    /\ nwPc = "idle"
    /\ nwBuf = Zero16
    /\ nwRet = None
    /\ nwReads = 0
    /\ sdRet = None
    /\ base = <<>>
    /\ seedings = 0
    /\ osLast = NoOp

\* a caller evaluates StdRng::new()
StdNew(os) ==
    /\ os = "ok" => seedings < MaxSeedings
    /\ sdRet' = StdRngNew(os, seedings + 1)
    /\ seedings' = IF os = "ok" THEN seedings + 1 ELSE seedings
    /\ osLast' = [NoOp EXCEPT !.op = "StdRng::new", !.uses = 1, !.failure = (os # "ok")]
    /\ UNCHANGED <<nwPc, nwBuf, nwRet, nwReads, base>>

\* XorShiftRng::new() up to the loop: let mut r = try!(OSRng::new())
XsNewCall(os) ==
    /\ nwPc = "idle"
    /\ nwBuf' = Zero16
    /\ IF os = "ok"
       THEN /\ nwPc' = "read"
            /\ nwRet' = None
       ELSE /\ nwPc' = "done"
            /\ nwRet' = IoErr
    /\ nwReads' = 0
    /\ UNCHANGED <<sdRet, base, seedings, osLast>>

\* r.fill_bytes(s) delivers the block b
XsNewRead(b) ==
    /\ nwPc = "read"
    /\ nwBuf' = b
    /\ nwPc' = "test"
    /\ nwReads' = IF nwReads < MaxReads THEN nwReads + 1 ELSE nwReads
    /\ UNCHANGED <<nwRet, sdRet, base, seedings, osLast>>

\* r.fill_bytes(s) cannot fill s: it returns no value, so it fails the task
XsNewReadFails ==
    /\ nwPc = "read"
    /\ nwPc' = "done"
    /\ nwRet' = FailOf("fill_bytes")
    /\ nwReads' = IF nwReads < MaxReads THEN nwReads + 1 ELSE nwReads
    /\ UNCHANGED <<nwBuf, sdRet, base, seedings, osLast>>

\* the test that ends the loop, and after it the transmute and
\* Ok(SeedableRng::from_seed(s)), whose assertion fails the task
XsNewTest(endian) ==
    /\ nwPc = "test"
    /\ IF XsNewBreak(nwBuf)
       THEN LET seed == Transmute(nwBuf, endian)
            IN  /\ nwPc' = "done"
                /\ nwRet' = IF SeedOk(seed) THEN OkOf(XsFromSeed(seed))
                            ELSE FailOf("from_seed")
       ELSE /\ nwPc' = "read"
            /\ UNCHANGED nwRet
    /\ UNCHANGED <<nwBuf, nwReads, sdRet, base, seedings, osLast>>

\* the caller takes what XorShiftRng::new() returned
XsNewReturn ==
    /\ nwPc = "done"
    /\ nwPc' = "idle"
    /\ nwBuf' = Zero16
    /\ nwRet' = None
    /\ nwReads' = 0
    /\ UNCHANGED <<sdRet, base, seedings, osLast>>

\* task_rng() in task t, with the StdRng it puts into a new box
TaskRngSeeded(t, os) ==
    /\ (os = "ok" /\ SlotGet(t) = None) => seedings < MaxSeedings
    /\ TaskRngCall(t, os = "ok")
    /\ IF SlotGet(t) = None
       THEN /\ base' = IF os = "ok" THEN Append(base, FreshStdRng(seedings + 1)) ELSE base
            /\ seedings' = IF os = "ok" THEN seedings + 1 ELSE seedings
            /\ osLast' = [NoOp EXCEPT !.op = "task_rng", !.uses = 1,
                                      !.failure = (os # "ok"), !.task = t]
       ELSE /\ osLast' = [NoOp EXCEPT !.op = "task_rng", !.task = t]
            /\ UNCHANGED <<base, seedings>>
    /\ UNCHANGED <<nwPc, nwBuf, nwRet, nwReads, sdRet>>

\* a draw through a TaskRng of task t reaches the generator in the box
TaskRngDraw(t) ==
    /\ taskState[t] = "running"
    /\ handles[t] # <<>>
    /\ LET ptr == SlotGet(t)[1]
       IN  /\ base[ptr].drawn < MaxBaseDraws
           /\ base' = [base EXCEPT ![ptr].drawn = @ + 1]
    /\ UNCHANGED <<taskVars, nwPc, nwBuf, nwRet, nwReads, sdRet, seedings, osLast>>

\* the ReseedingRng in the box of task t calls TaskRngReseeder::reseed on
\* its StdRng, during a draw through a TaskRng
TaskRngReseed(t, os) ==
    /\ taskState[t] = "running"
    /\ handles[t] # <<>>
    /\ os = "ok" => seedings < MaxSeedings
    /\ LET ptr == SlotGet(t)[1]
           r == StdRngNew(os, seedings + 1)
       IN  IF r[1] = "Ok"
           THEN /\ base' = [base EXCEPT ![ptr] = r[2]]
                /\ seedings' = seedings + 1
                /\ osLast' = [op |-> "reseed", uses |-> 1, failure |-> FALSE, task |-> t,
                              before |-> Some(base[ptr]), after |-> Some(r[2])]
                /\ UNCHANGED taskVars
           ELSE \* fail!("could not reseed task_rng"): the task unwinds
                /\ taskState' = [taskState EXCEPT ![t] = "failed"]
                /\ boxes' = Free(boxes, tlsSlot[t])
                /\ tlsSlot' = [tlsSlot EXCEPT ![t] = None]
                /\ handles' = [handles EXCEPT ![t] = <<>>]
                /\ osLast' = [op |-> "reseed", uses |-> 1, failure |-> TRUE, task |-> t,
                              before |-> Some(base[ptr]), after |-> None]
                /\ UNCHANGED <<built, base, seedings>>
    /\ UNCHANGED <<nwPc, nwBuf, nwRet, nwReads, sdRet>>

\* the reads that deliver a block with a non-zero byte
XsNewReadNonZero ==
    \E b \in Blocks : XsNewBreak(b) /\ XsNewRead(b) /\ UNCHANGED <<rngVars, xsVars, taskVars>>

XsNewTested ==
    \E e \in Endians : XsNewTest(e) /\ UNCHANGED <<rngVars, xsVars, taskVars>>

\* XorShiftRng::new alone
SeedLoopNext ==
    \/ \E os \in OsOutcomes : XsNewCall(os) /\ UNCHANGED <<rngVars, xsVars, taskVars>>
    \/ \E b \in Blocks : XsNewRead(b) /\ UNCHANGED <<rngVars, xsVars, taskVars>>
    \/ XsNewReadFails /\ UNCHANGED <<rngVars, xsVars, taskVars>>
    \/ XsNewTested
    \/ XsNewReturn /\ UNCHANGED <<rngVars, xsVars, taskVars>>

\* the contexts that use their task-local generator here
Contexts == {1}

EntropyNext ==
    \/ \E os \in OsOutcomes : StdNew(os) /\ UNCHANGED <<rngVars, xsVars, taskVars>>
    \/ \E os \in OsOutcomes : XsNewCall(os) /\ UNCHANGED <<rngVars, xsVars, taskVars>>
    \/ \E b \in Blocks : XsNewRead(b) /\ UNCHANGED <<rngVars, xsVars, taskVars>>
    \/ XsNewReadFails /\ UNCHANGED <<rngVars, xsVars, taskVars>>
    \/ XsNewTested
    \/ XsNewReturn /\ UNCHANGED <<rngVars, xsVars, taskVars>>
    \/ \E t \in Contexts, os \in OsOutcomes : TaskRngSeeded(t, os) /\ UNCHANGED <<rngVars, xsVars>>
    \/ \E t \in Contexts : TaskRngDraw(t) /\ UNCHANGED <<rngVars, xsVars>>
    \/ \E t \in Contexts, os \in OsOutcomes : TaskRngReseed(t, os) /\ UNCHANGED <<rngVars, xsVars>>

Init == RngInit /\ XsInit /\ TaskInit /\ EntInit

Next == RngNext

Spec == Init /\ [][Next]_vars

XsSpec == Init /\ [][XsNext]_vars

TaskSpec == Init /\ [][TaskNext]_vars

EntropySpec == Init /\ [][EntropyNext]_vars

\* the thread inside XorShiftRng::new keeps running, and the source it reads
\* does not deliver all-zero blocks for ever
SeedLoopSpec ==
    /\ Init
    /\ [][SeedLoopNext]_vars
    /\ WF_vars(XsNewTested)
    /\ SF_vars(XsNewReadNonZero)

(***************************************************************************)
(* Properties of the Rng operations.                                       *)
(***************************************************************************)
\* byte k of a u64, byte 0 the least significant: bits 8k .. 8k+7
ByteOf(w, k) == ToNat({b - 8 * k : b \in {c \in w : c \div 8 = k}})

SeqRange(s) == {s[k] : k \in DOMAIN s}

\* how many times each element occurs in s
Occurrences(s) == [e \in SeqRange(s) |-> Cardinality({k \in DOMAIN s : s[k] = e})]

Min(a, b) == IF a < b THEN a ELSE b

\* C1: during and after a default fill_bytes call on a destination of any
\* length n (0 and lengths that are no multiple of 8 included), byte k of the
\* destination, once written, is byte (k mod 8), least significant first, of
\* the (k div 8)-th word next_u64 returned in the call; a word is drawn
\* exactly when the previous one has given its 8 bytes; and when the call
\* returns every one of the n bytes has been written.
C1_FillBytesDrainsWords ==
    op = "fill_bytes" =>
        /\ Len(values) = Len(input)
        /\ i \in 0..Len(values)
        /\ Len(words) = (i + 7) \div 8
        /\ count = (8 - (i % 8)) % 8
        /\ \A k \in 0..(i - 1) : values[k + 1] = ByteOf(words[(k \div 8) + 1], k % 8)
        /\ \A k \in i..(Len(values) - 1) : values[k + 1] = input[k + 1]
        /\ pc = "done" => i = Len(values)
        /\ pc # "failed"

\* a fill of 11 bytes has returned: two different words, the second drained
\* of 3 bytes only
C1_Witness ==
    /\ op = "fill_bytes"
    /\ pc = "done"
    /\ Len(values) = 11
    /\ Len(words) = 2
    /\ words[1] # words[2]
    /\ values[9] # values[1]

\* what holds of a direct gen_range call once its body has run
GenRangeOutcome ==
    (op = "gen_range" /\ pc # "run") =>
        /\ (pc = "failed") <=> (input.low >= input.high)
        /\ pc = "failed" => (draws = <<>> /\ ret = None)
        /\ pc = "done" => (Len(draws) = 1 /\ input.low <= ret /\ ret < input.high)

\* C2: a gen_range(low, high) call, on int or uint arguments, fails exactly
\* when low >= high (low = high and low > high alike); it fails before any
\* value is drawn, and once failed the call does nothing more: the only step
\* left is the caller's.
C2_GenRangeFails ==
    /\ []GenRangeOutcome
    /\ [][(op = "gen_range" /\ pc = "failed") => (op' = "idle" /\ draws' = <<>>)]_vars

\* gen_range(2u, 2u) has failed
C2_Witness ==
    /\ op = "gen_range"
    /\ pc = "failed"
    /\ input.ty = "uint"
    /\ input.low = 2
    /\ input.high = 2

\* C7: at every step of shuffle the slice holds the same elements as the
\* input, each as many times; a slice of length 0 or 1 is returned as it
\* was, without a draw.
C7_ShufflePermutes ==
    op = "shuffle" =>
        /\ Len(values) = Len(input)
        /\ Occurrences(values) = Occurrences(input)
        /\ pc # "failed"
        /\ (pc = "done" /\ Len(input) <= 1) => (values = input /\ draws = <<>>)

\* a shuffle of a slice with a repeated element has returned another order
C7_Witness ==
    /\ op = "shuffle"
    /\ pc = "done"
    /\ input = <<"a", "b", "a">>
    /\ values = <<"b", "a", "a">>

\* C8: sample(iter, n) over a sequence of length L returns min(n, L)
\* elements, for n = 0 and L = 0 too; when L <= n it returns the sequence
\* itself, in order; every element returned is an element of the sequence.
C8_SampleResult ==
    (op = "sample" /\ pc # "run") =>
        /\ pc = "done"
        /\ Len(ret) = Min(input.n, Len(input.iter))
        /\ Len(input.iter) <= input.n => ret = input.iter
        /\ SeqRange(ret) \subseteq SeqRange(input.iter)

\* a sample of 2 out of 4 has returned the last two elements
C8_Witness ==
    /\ op = "sample"
    /\ pc = "done"
    /\ input = [iter |-> <<"a", "a", "b", "c">>, n |-> 2]
    /\ ret = <<"c", "b">>

\* C9: choose returns None on an empty slice; on a slice of one element it
\* returns that element; on any other it returns the element at the index
\* gen_range(0, len) gave, an index within the slice; it never fails on an
\* index out of bounds.
C9_ChooseResult ==
    (op = "choose" /\ pc # "run") =>
        /\ pc = "done"
        /\ Len(input) = 0 => (ret = None /\ draws = <<>>)
        /\ Len(input) = 1 => (Len(ret) = 1 /\ ret[1].elem = input[1])
        /\ Len(input) >= 1 =>
              /\ Len(ret) = 1
              /\ draws = <<<<0, Len(input), ret[1].at>>>>
              /\ ret[1].at \in 0..(Len(input) - 1)
              /\ ret[1].elem = input[ret[1].at + 1]
              /\ ret[1].elem \in SeqRange(input)

\* choose has returned the last element of a slice of three
C9_Witness ==
    /\ op = "choose"
    /\ pc = "done"
    /\ input = <<"a", "b", "c">>
    /\ ret = Some([at |-> 2, elem |-> "c"])

\* C10: gen_weighted_bool(0) returns true without calling gen_range, so it
\* cannot fail; gen_weighted_bool(1) returns true; for n >= 1 exactly one
\* value of [0, n) is drawn and the result is true iff it is 0.
C10_WeightedBool ==
    (op = "gen_weighted_bool" /\ pc # "run") =>
        /\ pc = "done"
        /\ input.n = 0 => (ret = TRUE /\ draws = <<>>)
        /\ input.n = 1 => ret = TRUE
        /\ input.n >= 1 =>
              /\ Len(draws) = 1
              /\ draws[1][1] = 0
              /\ draws[1][2] = input.n
              /\ draws[1][3] \in 0..(input.n - 1)
              /\ ret = (draws[1][3] = 0)

\* gen_weighted_bool(0) has returned true
C10_Witness ==
    /\ op = "gen_weighted_bool"
    /\ pc = "done"
    /\ input.n = 0
    /\ ret = TRUE

(***************************************************************************)
(* Properties of XorShiftRng.                                              *)
(***************************************************************************)
AllZero(st) == st.x = {} /\ st.y = {} /\ st.z = {} /\ st.w = {}

\* C5: no XorShiftRng instance ever has x = y = z = w = 0: from_seed and
\* reseed fail exactly on the seed of four zero words, and no sequence of
\* next_u32 calls and successful reseeds leads a generator to the all-zero
\* state, which next_u32 maps to itself.
C5_NeverAllZero ==
    /\ \A r \in Inst : xs[r] # NoRng => ~ AllZero(xs[r])
    /\ xsLast.kind # "none" =>
          (xsLast.failed <=> (\A k \in 1..4 : xsLast.seed[k] = {}))
    /\ \A r \in Inst : xsSeed[r] # <<>> => (\E k \in 1..4 : xsSeed[r][k] # {})
    /\ AllZero(XsNextU32([x |-> {}, y |-> {}, z |-> {}, w |-> {}]))

\* a generator seeded with the single bit 2^31 has been drawn from to the
\* bound, and a reseed of a live generator with the zero seed has just failed
C5_Witness ==
    /\ xsLast = [kind |-> "reseed",
                 seed |-> <<Zero32, Zero32, Zero32, Zero32>>,
                 failed |-> TRUE]
    /\ xsSeed["ra"] = <<Zero32, Zero32, Zero32, {31}>>
    /\ Len(xsOut["ra"]) = MaxDraws
    /\ xsHist["ra"]

\* C6: two XorShiftRng instances last seeded with the same seed, by
\* from_seed or by reseed after any history of draws, have returned the
\* same values draw for draw, and after the same number of draws are in
\* the same state.
C6_SeedDetermines ==
    \A p, q \in Inst :
        (xs[p] # NoRng /\ xs[q] # NoRng /\ xsSeed[p] = xsSeed[q]) =>
            /\ \A k \in 1..Min(Len(xsOut[p]), Len(xsOut[q])) : xsOut[p][k] = xsOut[q][k]
            /\ Len(xsOut[p]) = Len(xsOut[q]) => xs[p] = xs[q]

\* rb had drawn, was reseeded with the seed ra was built from, and both
\* have then drawn three times
C6_Witness ==
    /\ xs["ra"] # NoRng
    /\ xs["rb"] # NoRng
    /\ ~ xsHist["ra"]
    /\ xsHist["rb"]
    /\ xsSeed["ra"] = xsSeed["rb"]
    /\ Len(xsOut["ra"]) = 3
    /\ xsOut["rb"] = xsOut["ra"]
    /\ xsOut["ra"][1] # xsOut["ra"][2]

(***************************************************************************)
(* Properties of the task-local generator.                                 *)
(***************************************************************************)
\* what holds of the slots, boxes and handles in every state
OnePerTask ==
    /\ \A t \in Tasks :
          /\ built[t] <= 1
          /\ tlsSlot[t] = None => handles[t] = <<>>
          /\ tlsSlot[t] # None =>
                /\ built[t] = 1
                /\ boxes[tlsSlot[t][1]] = NewInner(t)
                /\ \A k \in 1..Len(handles[t]) : handles[t][k] = tlsSlot[t][1]
    /\ \A t, u \in Tasks :
          t # u => SeqRange(handles[t]) \cap SeqRange(handles[u]) = {}

\* C4: in each task at most one ReseedingRng is ever built; it is built by
\* a call that finds the task's slot empty, from StdRng::new() with the
\* threshold 32768, and stored; while the task runs the slot keeps that
\* box, and every TaskRng the task gets points to it; no two tasks get
\* a TaskRng pointing to the same box.
C4_OnePerTask ==
    /\ []OnePerTask
    /\ [][\A t \in Tasks :
            /\ (tlsSlot[t] # None /\ taskState'[t] = "running") => tlsSlot'[t] = tlsSlot[t]
            /\ built'[t] # built[t] => (tlsSlot[t] = None /\ tlsSlot'[t] # None)]_vars

\* task 1 has called task_rng() three times and task 2 twice, each on its
\* own box, and task 3 failed in StdRng::new()
C4_Witness ==
    /\ Len(handles[1]) = 3
    /\ Len(handles[2]) = 2
    /\ handles[1][1] # handles[2][1]
    /\ taskState[3] = "failed"
    /\ built = [t \in Tasks |-> IF t \in {1, 2} THEN 1 ELSE 0]

(***************************************************************************)
(* Properties of gen_ascii_str and of the shuffle and sample algorithms.   *)
(***************************************************************************)
\* the codes of A-Z, a-z and 0-9
Alphabet == (65..90) \cup (97..122) \cup (48..57)

\* C11: gen_ascii_str(n) never fails and returns exactly n characters, the
\* empty string for n = 0; each character is the one a single choose over
\* the 62-symbol charset picked, a symbol of A-Z, a-z, 0-9, and that choose
\* never returns None.
C11_AsciiStr ==
    op = "gen_ascii_str" =>
        /\ pc # "failed"
        /\ Cardinality(Alphabet) = 62
        /\ SeqRange(GEN_ASCII_STR_CHARSET) = Alphabet
        /\ Len(ret) = i
        /\ Len(draws) = i
        /\ i <= input.len
        /\ \A k \in 1..Len(ret) :
              /\ ret[k] \in Alphabet
              /\ draws[k][1] = 0
              /\ draws[k][2] = 62
              /\ draws[k][3] \in 0..61
              /\ ret[k] = GEN_ASCII_STR_CHARSET[draws[k][3] + 1]
        /\ pc = "done" => Len(ret) = input.len

\* gen_ascii_str(2) has returned "z0"
C11_Witness ==
    /\ op = "gen_ascii_str"
    /\ pc = "done"
    /\ input.len = 2
    /\ ret = <<122, 48>>

\* the draws a Fisher-Yates pass over len elements can make: the k-th is
\* the partner j of index len - k, from [0, len - k]
DrawSeqs(len) ==
    IF len < 2 THEN {<<>>}
    ELSE {js \in [1..(len - 1) -> 0..(len - 1)] : \A k \in 1..(len - 1) : js[k] <= len - k}

Exchange(s, a, b) ==
    [p \in 1..Len(s) |-> IF p = a + 1 THEN s[b + 1] ELSE IF p = b + 1 THEN s[a + 1] ELSE s[p]]

RECURSIVE FisherYatesFrom(_, _, _)
FisherYatesFrom(s, js, k) ==
    IF k > Len(js) THEN s
    ELSE FisherYatesFrom(Exchange(s, Len(s) - k, js[k]), js, k + 1)

\* the ordering of the positions 1..len after the draws js
FisherYates(len, js) == FisherYatesFrom([p \in 1..len |-> p], js, 1)

Orderings(len) ==
    {f \in [1..len -> 1..len] : \A a, b \in 1..len : f[a] = f[b] => a = b}

\* for every length, different draw sequences give different orderings, and
\* the orderings they give are all the permutations
OneToOneOntoAll ==
    \A len \in 0..MaxLen :
        /\ \A a, b \in DrawSeqs(len) : FisherYates(len, a) = FisherYates(len, b) => a = b
        /\ {FisherYates(len, js) : js \in DrawSeqs(len)} = Orderings(len)

ShuffleState ==
    op = "shuffle" =>
        LET len == Len(input)
            js == [k \in 1..Len(draws) |-> draws[k][3]]
            order == FisherYates(len, js)
        IN  /\ pc # "failed"
            /\ Len(draws) = len - i
            /\ pc = "done" => Len(draws) = (IF len >= 2 THEN len - 1 ELSE 0)
            /\ \A k \in 1..Len(draws) :
                  /\ draws[k][1] = 0
                  /\ draws[k][2] = len - k + 1
                  /\ draws[k][3] \in 0..(len - k)
            /\ values = [p \in 1..len |-> input[order[p]]]
            /\ pc = "done" => js \in DrawSeqs(len)
            /\ OneToOneOntoAll

ShuffleLocks ==
    (op = "shuffle" /\ op' = "shuffle") =>
        \A p \in 1..Len(values) : p > i => values'[p] = values[p]

\* C12: shuffle is the Fisher-Yates pass: on len >= 2 elements it makes
\* exactly len - 1 range draws, for i = len - 1 down to 1 a j from [0, i]
\* inclusive, and swaps elements i and j; no step changes an index above the
\* i it is placing; the draw sequences map one-to-one onto all len!
\* orderings of the positions, so uniform draws give every permutation the
\* same probability.
C12_FisherYates == []ShuffleState /\ [][ShuffleLocks]_vars

\* a shuffle of four elements has made the draws 1, 0, 1 and returned
C12_Witness ==
    /\ op = "shuffle"
    /\ pc = "done"
    /\ input = <<"a", "b", "c", "a">>
    /\ draws = <<<<0, 4, 1>>, <<0, 3, 0>>, <<0, 2, 1>>>>
    /\ values = <<"c", "a", "a", "b">>

(***************************************************************************)
(* The XorShiftRng transition, bit by bit.                                 *)
(***************************************************************************)
\* bit b of x ^ (x << 11) on 32 bits
BitOfT(x, b) == (b \in x) # (b >= 11 /\ (b - 11) \in x)

\* the state after one draw from st: bit b of the new w is the xor of bit b
\* and bit b + 19 of w and of bit b and bit b + 8 of t
DrawOnce(st) ==
    LET x == st.x
        w == st.w
        t == {b \in 0..31 : BitOfT(x, b)}
    IN  [x |-> st.y,
         y |-> st.z,
         z |-> w,
         w |-> {b \in 0..31 :
                  ((b \in w) # ((b + 19) \in w)) # ((b \in t) # ((b + 8) \in t))}]

\* the generator state j draws after seeding, read off the seed and the
\* values returned: the fields are the last four of them
XsStateAt(seed, out, j) ==
    LET h == seed \o out
    IN  [x |-> h[j + 1], y |-> h[j + 2], z |-> h[j + 3], w |-> h[j + 4]]

\* after k >= 1 draws the generator is one transition away from where it
\* was after k - 1; the states after fewer draws are the reachable states
\* this one extends
XsDrawState ==
    \A r \in Inst :
        xs[r] # NoRng =>
            /\ \A f \in {xs[r].x, xs[r].y, xs[r].z, xs[r].w} : f \subseteq 0..31
            /\ xs[r] = XsStateAt(xsSeed[r], xsOut[r], Len(xsOut[r]))
            /\ Len(xsOut[r]) >= 1 =>
                  xs[r] = DrawOnce(XsStateAt(xsSeed[r], xsOut[r], Len(xsOut[r]) - 1))

XsDrawStep ==
    \A r \in Inst :
        (xs[r] # NoRng /\ Len(xsOut'[r]) = Len(xsOut[r]) + 1) =>
            /\ xs'[r] = DrawOnce(xs[r])
            /\ xsOut'[r] = Append(xsOut[r], xs'[r].w)
            /\ xsSeed' = xsSeed
            /\ \A q \in Inst \ {r} : xs'[q] = xs[q] /\ xsOut'[q] = xsOut[q]

\* C14: one draw of XorShiftRng computes, on 32-bit words, t = x ^ (x << 11),
\* then x' = y, y' = z, z' = w and w' = w ^ (w >> 19) ^ (t ^ (t >> 8)) from
\* the x and w before the draw, and returns w'; k draws in a row apply that
\* transition k times to the seeded state and change nothing else.
C14_XorShiftStep == []XsDrawState /\ [][XsDrawStep]_vars

\* a generator seeded with 0x11223344, 0x55667788, 0xffffffff, 0 has drawn
\* four times, so the draw that used the first seed word is behind it
C14_Witness ==
    /\ xs["ra"] # NoRng
    /\ xsSeed["ra"] = <<U32(4386, 13124), U32(21862, 30600), 0..31, Zero32>>
    /\ Len(xsOut["ra"]) = 4
    /\ xsOut["ra"][1] # {}
    /\ xs["ra"].w = xsOut["ra"][4]

(***************************************************************************)
(* The reservoir of sample, by input position.                             *)
(***************************************************************************)
RECURSIVE ReservoirPositions(_, _, _)
\* the input positions, from 0, held by the slots after the first m elements,
\* the element at position p >= n having drawn ks[p - n + 1]
ReservoirPositions(n, ks, m) ==
    IF m = 0 THEN <<>>
    ELSE LET before == ReservoirPositions(n, ks, m - 1)
             p == m - 1
         IN  IF p < n THEN Append(before, p)
             ELSE IF ks[p - n + 1] < n
                  THEN [before EXCEPT ![ks[p - n + 1] + 1] = p]
                  ELSE before

SampleState ==
    op = "sample" =>
        LET n == input.n
            L == Len(input.iter)
            ks == [j \in 1..Len(draws) |-> draws[j][3]]
            held == ReservoirPositions(n, ks, i)
        IN  /\ pc # "failed"
            /\ Len(reservoir) <= n
            /\ Len(draws) = (IF i > n THEN i - n ELSE 0)
            /\ pc = "done" => Len(draws) = (IF L > n THEN L - n ELSE 0)
            /\ \A j \in 1..Len(draws) :
                  /\ draws[j][1] = 0
                  /\ draws[j][2] = n + j
                  /\ draws[j][3] \in 0..(n + j - 1)
            /\ Len(held) = Len(reservoir)
            /\ \A a \in 1..Len(held) :
                  /\ held[a] \in 0..(i - 1)
                  /\ reservoir[a] = input.iter[held[a] + 1]
                  /\ \A b \in 1..Len(held) : held[a] = held[b] => a = b

SampleTakes ==
    (op = "sample" /\ op' = "sample" /\ i' = i + 1) =>
        IF i < input.n
        THEN /\ draws' = draws
             /\ reservoir' = Append(reservoir, input.iter[i + 1])
        ELSE \E k \in 0..i :
                /\ draws' = Append(draws, <<0, i + 1, k>>)
                /\ reservoir' = IF k < input.n
                                THEN [reservoir EXCEPT ![k + 1] = input.iter[i + 1]]
                                ELSE reservoir

\* C16: at every step of sample(iter, n) the reservoir holds the elements of
\* pairwise distinct input positions, never more than n of them; the element
\* at position i >= n, from 0, causes exactly one draw k from [0, i + 1) and
\* overwrites slot k iff k < n, else it is discarded; an element at a
\* position below n causes no draw; a call over L elements makes exactly
\* max(0, L - n) draws.
C16_Reservoir == []SampleState /\ [][SampleTakes]_vars

\* a sample of 2 out of 4: the third element replaced slot 1, the fourth
\* was discarded
C16_Witness ==
    /\ op = "sample"
    /\ pc = "done"
    /\ input = [iter |-> <<"a", "b", "c", "a">>, n |-> 2]
    /\ draws = <<<<0, 3, 1>>, <<0, 4, 3>>>>
    /\ ret = <<"a", "c">>

(***************************************************************************)
(* Properties of the seeding from the operating system.                    *)
(***************************************************************************)
\* C13: entropy failure is handled by path: a failure during a direct
\* StdRng::new() or XorShiftRng::new() is returned to the caller as an I/O
\* error value, and no generator with it; a failure inside task_rng()'s lazy
\* construction or inside the automatic reseed is never returned: it fails
\* the calling task; a successful automatic reseed replaces the whole
\* StdRng in the box by one freshly seeded from the OS.
C13_EntropyFailure ==
    /\ (osLast.op = "StdRng::new" /\ osLast.failure) => sdRet = IoErr
    /\ (nwPc = "done" /\ nwRet[1] # "Ok") => nwRet = IoErr
    /\ (osLast.op = "task_rng" /\ osLast.failure) =>
          /\ taskState[osLast.task] = "failed"
          /\ handles[osLast.task] = <<>>
          /\ tlsSlot[osLast.task] = None
    /\ (osLast.op = "reseed" /\ osLast.failure) =>
          /\ taskState[osLast.task] = "failed"
          /\ handles[osLast.task] = <<>>
          /\ osLast.after = None
    /\ (osLast.op = "reseed" /\ ~ osLast.failure) =>
          /\ osLast.after = Some(FreshStdRng(seedings))
          /\ osLast.after[1].seed # osLast.before[1].seed
          /\ taskState[osLast.task] = "running" =>
                base[tlsSlot[osLast.task][1]].seed = seedings

====
